---------------------------- MODULE Spec2Model ----------------------------
(***************************************************************************)
(* A model of match.py, the CV / job-description keyword matcher.          *)
(*                                                                         *)
(* A Python str is a sequence of one-character strings, so that the        *)
(* regular expression, lower(), strip(), the substring test, splitlines()  *)
(* and the lexicographic order of the sort key are computed character by   *)
(* character.  A float score is held in halves (score2 = 2 * score): the   *)
(* only scores the program forms are freq * 1.0 and freq * 1.5.            *)
(*                                                                         *)
(* Specifications:                                                         *)
(*   SpecTok   tokenize_simple on bounded texts                            *)
(*   SpecPhr   find_phrases on bounded texts and phrase lists              *)
(*   SpecGap   compute_overlap_and_gaps and score_terms on bounded inputs  *)
(*   SpecSug   suggest_bullets on bounded term lists                       *)
(*   Spec      main(), statement by statement, over a small file system    *)
(***************************************************************************)
EXTENDS Integers, Sequences, FiniteSets, TLC

VARIABLES
    pc,                 \* position in main() / in the function under check
    STOP_WORDS,         \* module global, fixed at import (lines 14-29)
    args_top,           \* args.top
    cv_file,            \* file system: the file at args.cv
    job_file,           \* file system: the file at args.job
    nice_file,          \* args.nice and the file system behind it
    out_ok,             \* file system: whether args.output can be written
    cv_text, jd_text,
    cv_terms_list, jd_terms_list,
    cv_counts, jd_counts,
    cv_terms, jd_terms,
    phrases,
    cv_phrase_hits, jd_phrase_hits,
    overlap, gaps,
    overlap_sorted, gaps_scored_all,
    gaps_scored, overlap_sorted_top,
    missing_terms, max_bullets, bullets,
    console,            \* what has been printed so far, in order
    report              \* file system: the file at args.output

vars == << pc, STOP_WORDS, args_top, cv_file, job_file, nice_file, out_ok,
           cv_text, jd_text, cv_terms_list, jd_terms_list,
           cv_counts, jd_counts, cv_terms, jd_terms,
           phrases, cv_phrase_hits, jd_phrase_hits, overlap, gaps,
           overlap_sorted, gaps_scored_all, gaps_scored, overlap_sorted_top,
           missing_terms, max_bullets, bullets, console, report >>

-----------------------------------------------------------------------------
(* Bounds of the model.                                                    *)

MaxPieces == 4
MaxPhrases == 2
MaxFreq == 3
MaxTerms == 6
MaxBullets == 6
MaxTop == 2
MaxNiceLines == 2

-----------------------------------------------------------------------------
(* Characters and strings.                                                 *)

UpperSeq == << "A","B","C","D","E","F","G","H","I","J","K","L","M",
               "N","O","P","Q","R","S","T","U","V","W","X","Y","Z" >>
LowerSeq == << "a","b","c","d","e","f","g","h","i","j","k","l","m",
               "n","o","p","q","r","s","t","u","v","w","x","y","z" >>
DigitSeq == << "0","1","2","3","4","5","6","7","8","9" >>

Range(s) == { s[i] : i \in DOMAIN s }
IndexOf(s, c) == CHOOSE i \in DOMAIN s : s[i] = c

IsUpper(c) == c \in Range(UpperSeq)
IsLower(c) == c \in Range(LowerSeq)
IsLetter(c) == IsUpper(c) \/ IsLower(c)
IsDigit(c) == c \in Range(DigitSeq)

Min(a, b) == IF a < b THEN a ELSE b
Max(a, b) == IF a > b THEN a ELSE b

\* ord(): the code point of a character a term can hold.
ord(c) ==
    CASE IsLower(c) -> 96 + IndexOf(LowerSeq, c)
      [] IsUpper(c) -> 64 + IndexOf(UpperSeq, c)
      [] IsDigit(c) -> 47 + IndexOf(DigitSeq, c)
      [] c = "\t" -> 9
      [] c = "\n" -> 10
      [] c = " " -> 32
      [] c = "+" -> 43
      [] c = "-" -> 45
      [] c = "." -> 46
      [] c = "/" -> 47
      [] c = "_" -> 95

\* str.lower(), one character.
lower_char(c) == IF IsUpper(c) THEN LowerSeq[IndexOf(UpperSeq, c)] ELSE c

\* str.lower()
lower(s) == [ i \in DOMAIN s |-> lower_char(s[i]) ]

\* str.strip(chars): `chars` is the set of characters to strip; strip() with
\* no argument strips white space.
RECURSIVE lstrip(_, _)
lstrip(s, chars) ==
    IF s # << >> /\ Head(s) \in chars THEN lstrip(Tail(s), chars) ELSE s

RECURSIVE rstrip(_, _)
rstrip(s, chars) ==
    IF s # << >> /\ s[Len(s)] \in chars
    THEN rstrip(SubSeq(s, 1, Len(s) - 1), chars)
    ELSE s

strip(s, chars) == rstrip(lstrip(s, chars), chars)

Whitespace == { " ", "\n", "\t" }

\* `p in t` for two str: p is a substring of t.
Contains(t, p) ==
    \E i \in 1 .. (Len(t) - Len(p) + 1) : SubSeq(t, i, i + Len(p) - 1) = p

\* s < t for two str: lexicographic by code point.
RECURSIVE StrLess(_, _)
StrLess(s, t) ==
    IF t = << >> THEN FALSE
    ELSE IF s = << >> THEN TRUE
    ELSE IF ord(Head(s)) # ord(Head(t)) THEN ord(Head(s)) < ord(Head(t))
    ELSE StrLess(Tail(s), Tail(t))

\* The sequences over S of length at most n.
SeqsUpTo(S, n) == UNION { [ 1 .. k -> S ] : k \in 0 .. n }

\* The concatenation of a sequence of strings.
RECURSIVE Flatten(_)
Flatten(ss) == IF ss = << >> THEN << >> ELSE Head(ss) \o Flatten(Tail(ss))

\* A Python slice s[:n], n of either sign.
SliceTo(s, n) ==
    IF n >= 0 THEN SubSeq(s, 1, Min(n, Len(s)))
    ELSE SubSeq(s, 1, Max(Len(s) + n, 0))

-----------------------------------------------------------------------------
(* Configuration (lines 31-54).                                            *)

MIN_LEN == 3
TOP_DEFAULT == 20

\* The stop words spaCy ships that the texts of the model can spell; the
\* set is empty when spaCy is not installed (line 29).
SpacyStopWords == { << "a","n","d" >>, << "a","n" >> }

\* DEFAULT_NICE, cut to the phrases the texts of the model can spell.
DEFAULT_NICE == << << "g","i","t" >>, << "c","i","/","c","d" >>,
                   << "s","q","l" >> >>

-----------------------------------------------------------------------------
(* tokenize_simple (lines 63-70).                                          *)

\* The class [A-Za-z0-9\-/+_.]
IsTokChar(c) == IsLetter(c) \/ IsDigit(c) \/ c \in { "-", "/", "+", "_", "." }

PunctLike == { ".", "_", "-", "+", "/" }

\* The end of the longest run of class characters that starts at i (i - 1
\* when text[i] is not one).
RECURSIVE RunEnd(_, _)
RunEnd(text, i) ==
    IF i <= Len(text) /\ IsTokChar(text[i]) THEN RunEnd(text, i + 1) ELSE i - 1

\* re.findall(r"[A-Za-z][A-Za-z0-9\-/+_.]{2,}", text) from position i on:
\* the leftmost match, then the matches after its end.
RECURSIVE FindAll(_, _)
FindAll(text, i) ==
    IF i > Len(text) THEN << >>
    ELSE IF IsLetter(text[i]) /\ RunEnd(text, i + 1) - i >= 2
         THEN << SubSeq(text, i, RunEnd(text, i + 1)) >>
              \o FindAll(text, RunEnd(text, i + 1) + 1)
         ELSE FindAll(text, i + 1)

StripPunct(t) == strip(t, PunctLike)

KeepTerm(t, stop) == Len(t) >= MIN_LEN /\ t \notin stop

RECURSIVE FilterTerms(_, _)
FilterTerms(s, stop) ==
    IF s = << >> THEN << >>
    ELSE (IF KeepTerm(Head(s), stop) THEN << Head(s) >> ELSE << >>)
         \o FilterTerms(Tail(s), stop)

\* The filter with the length test applied to the token before it was
\* stripped (every regex match has at least three characters).
RECURSIVE FilterRaw(_, _)
FilterRaw(s, stop) ==
    IF s = << >> THEN << >>
    ELSE (IF StripPunct(Head(s)) \notin stop
          THEN << StripPunct(Head(s)) >> ELSE << >>)
         \o FilterRaw(Tail(s), stop)

tokenize_simple_rawlen(text, stop) ==
    LET raw == FindAll(text, 1)
        toks == [ i \in DOMAIN raw |-> lower(raw[i]) ]
    IN  FilterRaw(toks, stop)

tokenize_simple(text, stop) ==
    LET raw == FindAll(text, 1)
        toks == [ i \in DOMAIN raw |-> lower(raw[i]) ]
        cleaned == [ i \in DOMAIN toks |-> StripPunct(toks[i]) ]
    IN  FilterTerms(cleaned, stop)

\* extract_terms with no spaCy model loaded (USE_SPACY = False, line 90).
extract_terms(text, stop) == tokenize_simple(text, stop)

-----------------------------------------------------------------------------
(* find_phrases (lines 93-103).                                            *)

\* p.strip().lower()
p_norm(p) == lower(strip(p, Whitespace))

\* find_phrases with the `if not p_norm: continue` of lines 99-100 left out.
find_phrases_keep_empty(text, ps) ==
    { p_norm(ps[i]) :
        i \in { k \in DOMAIN ps : Contains(lower(text), p_norm(ps[k])) } }

find_phrases(text, ps) ==
    { p_norm(ps[i]) :
        i \in { k \in DOMAIN ps : /\ p_norm(ps[k]) # << >>
                                  /\ Contains(lower(text), p_norm(ps[k])) } }

-----------------------------------------------------------------------------
(* compute_overlap_and_gaps (lines 106-109).                               *)

\* The function with the difference taken the wrong way round.
compute_swapped(cv, jd) == << cv \cap jd, cv \ jd >>

compute_overlap_and_gaps(cv, jd) == << cv \cap jd, jd \ cv >>

-----------------------------------------------------------------------------
(* score_terms (lines 112-128).  A scored gap is << term, score2, freq >>, *)
(* score2 the score in halves.                                             *)

\* phrase_bonus = 1.5 and the plain factor 1.0, in halves.
PhraseBonus2 == 3
NoBonus2 == 2

\* jd_counts.get(term, 1)
CounterGet(counts, term) == IF term \in DOMAIN counts THEN counts[term] ELSE 1

\* The docstring's reading, freq * (1 + bonus), instead of freq * bonus.
ScoredEntryAdded(term, counts, hits) ==
    LET freq == CounterGet(counts, term)
        bonus2 == IF term \in hits THEN NoBonus2 + PhraseBonus2 ELSE NoBonus2
    IN  << term, freq * bonus2, freq >>

\* Lines 124-126: one pass of the loop.
ScoredEntry(term, counts, hits) ==
    LET freq == CounterGet(counts, term)
        bonus2 == IF term \in hits THEN PhraseBonus2 ELSE NoBonus2
    IN  << term, freq * bonus2, freq >>

\* The sort key without its last component.
KeyLessNoTerm(x, y) ==
    \/ -x[2] < -y[2]
    \/ -x[2] = -y[2] /\ -x[3] < -y[3]

\* Line 127: key(x) < key(y) for key = (-x[1], -x[2], x[0]).
KeyLess(x, y) ==
    \/ -x[2] < -y[2]
    \/ -x[2] = -y[2] /\ -x[3] < -y[3]
    \/ -x[2] = -y[2] /\ -x[3] = -y[3] /\ StrLess(x[1], y[1])

\* list.sort is stable: an element goes before the first one whose key is
\* greater, after every one whose key is equal.
RECURSIVE InsertStable(_, _)
InsertStable(x, sorted) ==
    IF sorted = << >> THEN << x >>
    ELSE IF KeyLess(x, Head(sorted)) THEN << x >> \o sorted
    ELSE << Head(sorted) >> \o InsertStable(x, Tail(sorted))

RECURSIVE SortByKey(_)
SortByKey(s) ==
    IF s = << >> THEN << >>
    ELSE InsertStable(s[Len(s)], SortByKey(SubSeq(s, 1, Len(s) - 1)))

\* `order` is the order in which the loop of line 123 meets the set gaps.
score_terms(order, counts, hits) ==
    SortByKey([ i \in DOMAIN order |-> ScoredEntry(order[i], counts, hits) ])

\* The orders in which a set can be iterated.
Orders(S) == { s \in [ 1 .. Cardinality(S) -> S ] : Range(s) = S }

-----------------------------------------------------------------------------
(* suggest_bullets (lines 225-235).                                        *)

\* The text of a str.
RECURSIVE Str(_)
Str(s) == IF s = << >> THEN "" ELSE Head(s) \o Str(Tail(s))

\* templates: the text before and after {term}.
templates ==
    << << "Built a small demo using ", " and documented setup & outcomes." >>,
       << "Practiced ", " by implementing a mini project and writing tests." >>,
       << "Used ",
          " to solve a real task (data cleaning, API, or CLI) and published code." >>,
       << "Created a short tutorial README explaining how to apply ", "." >> >>

\* templates[k].format(term=t), k counted from 0.
Format(k, t) == templates[k + 1][1] \o Str(t) \o templates[k + 1][2]

\* The loop of lines 233-234 over `terms`, `done` the bullets so far.
RECURSIVE AppendBullets(_, _)
AppendBullets(done, terms) ==
    IF terms = << >> THEN done
    ELSE AppendBullets(
             Append(done, Format(Len(done) % Len(templates), Head(terms))),
             Tail(terms))

\* The function with its list kept from one call to the next (a list made
\* once, as a default argument or a module global is) instead of line 232.
suggest_bullets_kept(terms, maxb) == AppendBullets(bullets, SliceTo(terms, maxb))

suggest_bullets(terms, maxb) == AppendBullets(<< >>, SliceTo(terms, maxb))

-----------------------------------------------------------------------------
(* main (lines 238-301): the pieces of its statements.                     *)

\* Path.read_text raises FileNotFoundError for a file that is not there.
ReadNeverRaises(file) == FALSE

ReadRaises(file) == ~file.exists

\* read_text (lines 59-60) of a file that is there.
read_text(file) == file.text

\* Counter(terms_list)
Counter(list) ==
    [ t \in Range(list) |-> Cardinality({ i \in DOMAIN list : list[i] = t }) ]

\* The text of a file made of `lines`, with a final line break when nl_end.
RECURSIVE JoinLines(_, _)
JoinLines(lines, nl_end) ==
    IF lines = << >> THEN (IF nl_end THEN << "\n" >> ELSE << >>)
    ELSE IF Len(lines) = 1 THEN Head(lines) \o (IF nl_end THEN << "\n" >> ELSE << >>)
    ELSE Head(lines) \o << "\n" >> \o JoinLines(Tail(lines), nl_end)

\* str.splitlines(): `cur` is the line being read; the text's last line is
\* kept only when it is not empty.
RECURSIVE SplitLinesFrom(_, _)
SplitLinesFrom(text, cur) ==
    IF text = << >> THEN (IF cur = << >> THEN << >> ELSE << cur >>)
    ELSE IF Head(text) = "\n" THEN << cur >> \o SplitLinesFrom(Tail(text), << >>)
    ELSE SplitLinesFrom(Tail(text), Append(cur, Head(text)))

splitlines(text) == SplitLinesFrom(text, << >>)

\* [p.strip() for p in lines if p.strip()]
RECURSIVE StripNonBlank(_)
StripNonBlank(lines) ==
    IF lines = << >> THEN << >>
    ELSE (IF strip(Head(lines), Whitespace) # << >>
          THEN << strip(Head(lines), Whitespace) >> ELSE << >>)
         \o StripNonBlank(Tail(lines))

\* Lines 263-265 with the `if p.strip()` of the comprehension left out.
EffectivePhrasesKeepBlank(nf) ==
    IF nf.given /\ nf.exists
    THEN LET ls == splitlines(JoinLines(nf.lines, nf.nl_end))
         IN  [ i \in DOMAIN ls |-> strip(ls[i], Whitespace) ]
    ELSE DEFAULT_NICE

\* Lines 263-265: the phrase list main() works with.
EffectivePhrases(nf) ==
    IF nf.given /\ nf.exists
    THEN StripNonBlank(splitlines(JoinLines(nf.lines, nf.nl_end)))
    ELSE DEFAULT_NICE

\* Line 274: key(x) < key(y) for key = (-x[1], x[0]), x = (term, freq).
OverlapKeyLess(x, y) ==
    \/ -x[2] < -y[2]
    \/ -x[2] = -y[2] /\ StrLess(x[1], y[1])

RECURSIVE InsertOverlap(_, _)
InsertOverlap(x, sorted) ==
    IF sorted = << >> THEN << x >>
    ELSE IF OverlapKeyLess(x, Head(sorted)) THEN << x >> \o sorted
    ELSE << Head(sorted) >> \o InsertOverlap(x, Tail(sorted))

RECURSIVE SortOverlap(_)
SortOverlap(s) ==
    IF s = << >> THEN << >>
    ELSE InsertOverlap(s[Len(s)], SortOverlap(SubSeq(s, 1, Len(s) - 1)))

\* Line 274, `order` the order in which the set overlap is iterated.
sorted_overlap(order, counts) ==
    SortOverlap([ i \in DOMAIN order |-> << order[i], counts[order[i]] >> ])

\* max_bullets of the call at line 289.
MainMaxBullets == 10

\* What main() prints: the panel and the two tables of make_cli_tables
\* (lines 143-170), the suggestions panel (line 298), the last line (301).
CliOutput(ov_top, gp_top, n_jd, n_cv) ==
    << [ kind |-> "panel", n_overlap |-> Len(ov_top), n_gaps |-> Len(gp_top),
         n_jd |-> n_jd, n_cv |-> n_cv ],
       [ kind |-> "gaps_table", rows |-> gp_top ],
       [ kind |-> "overlap_table", rows |-> ov_top ] >>

\* The file make_html_report writes (lines 185-222).
NoReport == [ written |-> FALSE, gaps_rows |-> << >>, ov_rows |-> << >>,
              cv_badges |-> {}, jd_badges |-> {} ]

HtmlReport(ov, gp, cvp, jdp) ==
    [ written |-> TRUE, gaps_rows |-> gp, ov_rows |-> ov,
      cv_badges |-> cvp, jd_badges |-> jdp ]

-----------------------------------------------------------------------------
(* The inputs of the model.                                                *)

NoFile == [ exists |-> FALSE, text |-> << >> ]
File(text) == [ exists |-> TRUE, text |-> text ]

NiceNotGiven == [ given |-> FALSE, exists |-> FALSE, lines |-> << >>,
                  nl_end |-> FALSE ]
NiceMissing == [ given |-> TRUE, exists |-> FALSE, lines |-> << >>,
                 nl_end |-> FALSE ]

EmptyCounter == [ t \in {} |-> 0 ]

\* Texts for tokenize_simple: up to MaxPieces of these pieces in a row.
TokPieces == { << "a" >>, << "n" >>, << "D" >>, << "-" >>, << "1" >>, << " " >>,
               << "a","n","D" >>, << "a","a","." >> }
TokTexts == { Flatten(ps) : ps \in SeqsUpTo(TokPieces, MaxPieces) }

\* Texts and phrases for find_phrases.
PhrTexts == { << >>,
              << "s","q","l" >>,
              << "U","s","e"," ","G","i","t",","," ","C","I","/","C","D" >>,
              << "g","i"," ","t" >> }
PhrasePool == { << >>, << " " >>, << "g","i","t" >>, << "G","i","t" >>,
                << " ","g","i","t","\n" >>, << "c","i","/","c","d" >>,
                << "i","t",","," ","c" >> }

\* Terms, frequency tables and phrase hits for the gap analysis.
Terms == { << "a","p","i" >>, << "a","p","i","s" >>, << "g","i","t" >> }
Counters == UNION { [ S -> 1 .. MaxFreq ] : S \in SUBSET Terms }
HitPool == { << "a","p","i" >>, << "g","i","t" >>, << "c","i","/","c","d" >> }

\* Terms for suggest_bullets.
SugTerms == { << "s","q","l" >>, << "c","i","/","c","d" >> }

\* The command line and the file system of main().
TopValues == (-1 .. MaxTop) \cup { TOP_DEFAULT }
CvFiles == { NoFile,
             File(<< "A","P","I"," ","a","n","d"," ","G","i","t","." >>) }
JobFiles == { NoFile, File(<< >>),
              File(<< "g","i","t",","," ","S","Q","L"," ","s","q","l"," ",
                      "a","p","i","s"," ","C","I","/","C","D"," ",
                      "a","n","d"," ","l","i","n","u","x" >>) }
NiceLinePool == { << >>, << " " >>, << " ","S","Q","L" >>, << "g","i","t" >> }
NiceFiles ==
    { NiceNotGiven, NiceMissing } \cup
    { [ given |-> TRUE, exists |-> TRUE, lines |-> ls, nl_end |-> e ] :
        ls \in SeqsUpTo(NiceLinePool, MaxNiceLines), e \in BOOLEAN }

-----------------------------------------------------------------------------
(* Groups of variables, and their values before anything has run.          *)

envVars == << STOP_WORDS, args_top, cv_file, job_file, nice_file, out_ok >>
textVars == << cv_text, jd_text >>
termVars == << cv_terms_list, jd_terms_list, cv_counts, jd_counts,
               cv_terms, jd_terms >>
phraseVars == << phrases, cv_phrase_hits, jd_phrase_hits >>
gapVars == << overlap, gaps, overlap_sorted, gaps_scored_all, gaps_scored,
              overlap_sorted_top >>
bulletVars == << missing_terms, max_bullets, bullets >>
outVars == << console, report >>

NoFileSystem ==
    /\ args_top = TOP_DEFAULT
    /\ cv_file = NoFile /\ job_file = NoFile /\ nice_file = NiceNotGiven
    /\ out_ok = TRUE
NoTexts == cv_text = << >> /\ jd_text = << >>
NoLists == cv_terms_list = << >> /\ jd_terms_list = << >>
NoCounts == cv_counts = EmptyCounter /\ jd_counts = EmptyCounter
NoTermSets == cv_terms = {} /\ jd_terms = {}
NoPhrases == phrases = << >> /\ cv_phrase_hits = {} /\ jd_phrase_hits = {}
NoGaps ==
    /\ overlap = {} /\ gaps = {}
    /\ overlap_sorted = << >> /\ gaps_scored_all = << >>
    /\ gaps_scored = << >> /\ overlap_sorted_top = << >>
NoBullets == missing_terms = << >> /\ max_bullets = 0 /\ bullets = << >>
NoOutput == console = << >> /\ report = NoReport

-----------------------------------------------------------------------------
(* SpecTok: tokenize_simple(jd_text).                                      *)

InitTok ==
    /\ pc = "tokenize"
    /\ STOP_WORDS \in { {}, SpacyStopWords }
    /\ jd_text \in TokTexts
    /\ cv_text = << >>
    /\ NoFileSystem /\ NoLists /\ NoCounts /\ NoTermSets /\ NoPhrases
    /\ NoGaps /\ NoBullets /\ NoOutput

TokenizeSimple ==
    /\ pc = "tokenize"
    /\ jd_terms_list' = tokenize_simple(jd_text, STOP_WORDS)
    /\ pc' = "tokenized"
    /\ UNCHANGED << envVars, textVars, cv_terms_list, cv_counts, jd_counts,
                    cv_terms, jd_terms, phraseVars, gapVars, bulletVars,
                    outVars >>

NextTok == TokenizeSimple

SpecTok == InitTok /\ [][NextTok]_vars

-----------------------------------------------------------------------------
(* SpecPhr: find_phrases(jd_text, phrases).                                *)

InitPhr ==
    /\ pc = "find"
    /\ jd_text \in PhrTexts
    /\ phrases \in SeqsUpTo(PhrasePool, MaxPhrases)
    /\ cv_text = << >> /\ cv_phrase_hits = {} /\ jd_phrase_hits = {}
    /\ STOP_WORDS = {}
    /\ NoFileSystem /\ NoLists /\ NoCounts /\ NoTermSets
    /\ NoGaps /\ NoBullets /\ NoOutput

FindPhrases ==
    /\ pc = "find"
    /\ jd_phrase_hits' = find_phrases(jd_text, phrases)
    /\ pc' = "found"
    /\ UNCHANGED << envVars, textVars, termVars, phrases, cv_phrase_hits,
                    gapVars, bulletVars, outVars >>

NextPhr == FindPhrases

SpecPhr == InitPhr /\ [][NextPhr]_vars

-----------------------------------------------------------------------------
(* SpecGap: compute_overlap_and_gaps(cv_terms, jd_terms), then             *)
(* score_terms(gaps, jd_counts, jd_phrase_hits).                           *)

InitGap ==
    /\ pc = "overlap_gaps"
    /\ cv_terms \in SUBSET Terms
    /\ jd_terms \in SUBSET Terms
    /\ jd_counts \in Counters
    /\ jd_phrase_hits \in SUBSET HitPool
    /\ cv_counts = EmptyCounter
    /\ phrases = << >> /\ cv_phrase_hits = {}
    /\ STOP_WORDS = {}
    /\ NoFileSystem /\ NoTexts /\ NoLists /\ NoGaps /\ NoBullets /\ NoOutput

ComputeOverlapAndGaps ==
    /\ pc = "overlap_gaps"
    /\ overlap' = compute_overlap_and_gaps(cv_terms, jd_terms)[1]
    /\ gaps' = compute_overlap_and_gaps(cv_terms, jd_terms)[2]
    /\ pc' = "score"
    /\ UNCHANGED << envVars, textVars, termVars, phraseVars, overlap_sorted,
                    gaps_scored_all, gaps_scored, overlap_sorted_top,
                    bulletVars, outVars >>

ScoreTerms ==
    /\ pc = "score"
    /\ \E order \in Orders(gaps) :
          gaps_scored_all' = score_terms(order, jd_counts, jd_phrase_hits)
    /\ pc' = "scored"
    /\ UNCHANGED << envVars, textVars, termVars, phraseVars, overlap, gaps,
                    overlap_sorted, gaps_scored, overlap_sorted_top,
                    bulletVars, outVars >>

NextGap == ComputeOverlapAndGaps \/ ScoreTerms

SpecGap == InitGap /\ [][NextGap]_vars

-----------------------------------------------------------------------------
(* SpecSug: suggest_bullets(missing_terms, max_bullets), called again and  *)
(* again.                                                                  *)

InitSug ==
    /\ pc = "suggest_bullets"
    /\ missing_terms \in SeqsUpTo(SugTerms, MaxTerms)
    /\ max_bullets \in 0 .. MaxBullets
    /\ bullets = << >>
    /\ STOP_WORDS = {}
    /\ NoFileSystem /\ NoTexts /\ NoLists /\ NoCounts /\ NoTermSets
    /\ NoPhrases /\ NoGaps /\ NoOutput

SuggestBullets ==
    /\ pc = "suggest_bullets"
    /\ bullets' = suggest_bullets(missing_terms, max_bullets)
    /\ pc' = "suggested"
    /\ UNCHANGED << envVars, textVars, termVars, phraseVars, gapVars,
                    missing_terms, max_bullets, outVars >>

SuggestBulletsAgain ==
    /\ pc = "suggested"
    /\ \E maxb \in 0 .. MaxBullets :
          /\ max_bullets' = maxb
          /\ bullets' = suggest_bullets(missing_terms, maxb)
    /\ UNCHANGED << pc, envVars, textVars, termVars, phraseVars, gapVars,
                    missing_terms, outVars >>

NextSug == SuggestBullets \/ SuggestBulletsAgain

SpecSug == InitSug /\ [][NextSug]_vars

-----------------------------------------------------------------------------
(* Spec: main() (lines 238-301), one action per statement group.  The      *)
(* command line and the file system are drawn in Init.                     *)

Init ==
    /\ pc = "read_cv"
    /\ STOP_WORDS \in { {}, SpacyStopWords }
    /\ args_top \in TopValues
    /\ cv_file \in CvFiles
    /\ job_file \in JobFiles
    /\ nice_file \in NiceFiles
    /\ out_ok \in BOOLEAN
    /\ NoTexts /\ NoLists /\ NoCounts /\ NoTermSets /\ NoPhrases
    /\ NoGaps /\ NoBullets /\ NoOutput

\* Line 249.
ReadCv ==
    /\ pc = "read_cv"
    /\ IF ReadRaises(cv_file)
       THEN pc' = "fatal" /\ UNCHANGED cv_text
       ELSE pc' = "read_job" /\ cv_text' = read_text(cv_file)
    /\ UNCHANGED << envVars, jd_text, termVars, phraseVars, gapVars,
                    bulletVars, outVars >>

\* Line 250.
ReadJob ==
    /\ pc = "read_job"
    /\ IF ReadRaises(job_file)
       THEN pc' = "fatal" /\ UNCHANGED jd_text
       ELSE pc' = "extract" /\ jd_text' = read_text(job_file)
    /\ UNCHANGED << envVars, cv_text, termVars, phraseVars, gapVars,
                    bulletVars, outVars >>

\* Lines 253-260.
ExtractTerms ==
    /\ pc = "extract"
    /\ cv_terms_list' = extract_terms(cv_text, STOP_WORDS)
    /\ jd_terms_list' = extract_terms(jd_text, STOP_WORDS)
    /\ cv_counts' = Counter(cv_terms_list')
    /\ jd_counts' = Counter(jd_terms_list')
    /\ cv_terms' = DOMAIN cv_counts'
    /\ jd_terms' = DOMAIN jd_counts'
    /\ pc' = "phrases"
    /\ UNCHANGED << envVars, textVars, phraseVars, gapVars, bulletVars,
                    outVars >>

\* Lines 263-268.
LoadPhrases ==
    /\ pc = "phrases"
    /\ phrases' = EffectivePhrases(nice_file)
    /\ cv_phrase_hits' = find_phrases(cv_text, phrases')
    /\ jd_phrase_hits' = find_phrases(jd_text, phrases')
    /\ pc' = "analyse"
    /\ UNCHANGED << envVars, textVars, termVars, gapVars, bulletVars,
                    outVars >>

\* Lines 271-279.
Analyse ==
    /\ pc = "analyse"
    /\ overlap' = compute_overlap_and_gaps(cv_terms, jd_terms)[1]
    /\ gaps' = compute_overlap_and_gaps(cv_terms, jd_terms)[2]
    /\ \E order \in Orders(overlap') :
          overlap_sorted' = sorted_overlap(order, jd_counts)
    /\ \E order \in Orders(gaps') :
          gaps_scored_all' = score_terms(order, jd_counts, jd_phrase_hits)
    /\ gaps_scored' = SliceTo(gaps_scored_all', args_top)
    /\ overlap_sorted_top' = SliceTo(overlap_sorted', args_top)
    /\ pc' = "cli"
    /\ UNCHANGED << envVars, textVars, termVars, phraseVars, bulletVars,
                    outVars >>

\* Line 282.
CliTables ==
    /\ pc = "cli"
    /\ console' = console \o CliOutput(overlap_sorted_top, gaps_scored,
                                       Cardinality(jd_terms),
                                       Cardinality(cv_terms))
    /\ pc' = "html"
    /\ UNCHANGED << envVars, textVars, termVars, phraseVars, gapVars,
                    bulletVars, report >>

\* Line 285: out_path.write_text (line 222) raises when the path cannot be
\* written.
WriteReport ==
    /\ pc = "html"
    /\ IF out_ok
       THEN /\ report' = HtmlReport(overlap_sorted, gaps_scored_all,
                                    cv_phrase_hits, jd_phrase_hits)
            /\ pc' = "suggest"
       ELSE /\ pc' = "fatal"
            /\ UNCHANGED report
    /\ UNCHANGED << envVars, textVars, termVars, phraseVars, gapVars,
                    bulletVars, console >>

\* Lines 288-298.
Suggestions ==
    /\ pc = "suggest"
    /\ missing_terms' = [ i \in DOMAIN gaps_scored_all |-> gaps_scored_all[i][1] ]
    /\ max_bullets' = MainMaxBullets
    /\ bullets' = suggest_bullets(missing_terms', MainMaxBullets)
    /\ console' = IF bullets' # << >>
                  THEN Append(console, [ kind |-> "suggestions",
                                         bullets |-> bullets' ])
                  ELSE console
    /\ pc' = "finish"
    /\ UNCHANGED << envVars, textVars, termVars, phraseVars, gapVars, report >>

\* Line 301.
FinishLine ==
    /\ pc = "finish"
    /\ console' = Append(console, [ kind |-> "saved" ])
    /\ pc' = "done"
    /\ UNCHANGED << envVars, textVars, termVars, phraseVars, gapVars,
                    bulletVars, report >>

Next ==
    \/ ReadCv \/ ReadJob \/ ExtractTerms \/ LoadPhrases \/ Analyse
    \/ CliTables \/ WriteReport \/ Suggestions \/ FinishLine

Spec == Init /\ [][Next]_vars

-----------------------------------------------------------------------------
(* Properties of compute_overlap_and_gaps and score_terms (SpecGap).       *)

\* C1: compute_overlap_and_gaps(A, B) returns (overlap, gaps) with
\* overlap \cup gaps = B, overlap \cap gaps = {} and overlap \subseteq A:
\* a term is in overlap exactly when it is in A and in B, in gaps exactly
\* when it is in B and not in A.
C1_SetCorrectness ==
    pc \in { "score", "scored" } =>
        /\ overlap \cup gaps = jd_terms
        /\ overlap \cap gaps = {}
        /\ overlap \subseteq cv_terms
        /\ \A t \in Terms :
              /\ t \in overlap <=> (t \in cv_terms /\ t \in jd_terms)
              /\ t \in gaps <=> (t \in jd_terms /\ t \notin cv_terms)

C1_Witness ==
    /\ pc = "score"
    /\ overlap # {} /\ gaps # {}
    /\ cv_terms \ jd_terms # {}

\* C2: score_terms returns exactly one triple per gap term, in ascending
\* order of (-score, -frequency, term): a higher score first, then a higher
\* frequency, then the smaller term; and it returns that same list for every
\* order in which the gap set is iterated.
C2_ScoreOrder ==
    pc = "scored" =>
        /\ Len(gaps_scored_all) = Cardinality(gaps)
        /\ { gaps_scored_all[i][1] : i \in DOMAIN gaps_scored_all } = gaps
        /\ \A i, j \in DOMAIN gaps_scored_all :
              i < j =>
                LET x == gaps_scored_all[i]
                    y == gaps_scored_all[j]
                IN  \/ x[2] > y[2]
                    \/ x[2] = y[2] /\ x[3] > y[3]
                    \/ x[2] = y[2] /\ x[3] = y[3] /\ StrLess(x[1], y[1])
        /\ \A order \in Orders(gaps) :
              score_terms(order, jd_counts, jd_phrase_hits) = gaps_scored_all

C2_Witness ==
    /\ pc = "scored"
    /\ Len(gaps_scored_all) = 3
    /\ gaps_scored_all[1][2] = gaps_scored_all[2][2]
    /\ gaps_scored_all[2][2] = gaps_scored_all[3][2]
    /\ gaps_scored_all[1][3] = gaps_scored_all[2][3]
    /\ gaps_scored_all[2][3] > gaps_scored_all[3][3]

-----------------------------------------------------------------------------
(* Properties of find_phrases (SpecPhr).                                   *)

\* p occurs in t from position i + 1 on.
OccursAt(p, t, i) == \A k \in 1 .. Len(p) : t[i + k] = p[k]
Occurs(p, t) == \E i \in 0 .. (Len(t) - Len(p)) : OccursAt(p, t, i)

\* C5 as claimed: the result is a subset of the given phrases, a phrase
\* being in it exactly when its lowercased, trimmed form is not empty and is
\* a substring of the lowercased text.
C5_SubsetOfGiven ==
    pc = "found" =>
        /\ jd_phrase_hits \subseteq Range(phrases)
        /\ \A p \in Range(phrases) :
              p \in jd_phrase_hits <=>
                  /\ lower(strip(p, Whitespace)) # << >>
                  /\ Occurs(lower(strip(p, Whitespace)), lower(jd_text))

\* C5 as amended: the result is the set of the lowercased, trimmed forms of
\* the given phrases that are not empty and are substrings of the lowercased
\* text; an empty or white-space-only phrase adds nothing to it.
C5_NormalisedForms ==
    pc = "found" =>
        /\ \A q \in jd_phrase_hits :
              /\ q # << >>
              /\ Occurs(q, lower(jd_text))
              /\ \E p \in Range(phrases) : q = lower(strip(p, Whitespace))
        /\ \A p \in Range(phrases) :
              LET q == lower(strip(p, Whitespace))
              IN  (q # << >> /\ Occurs(q, lower(jd_text)))
                      => q \in jd_phrase_hits

C5_Witness ==
    /\ pc = "found"
    /\ phrases = << << "G","i","t" >>, << " " >> >>
    /\ jd_phrase_hits = { << "g","i","t" >> }

-----------------------------------------------------------------------------
(* Properties of tokenize_simple (SpecTok).                                *)

\* A substring of text that starts at i with a letter, goes on with letters,
\* digits, - / + _ . and cannot be made longer at either end.
IsMaxStart(text, i) ==
    /\ IsLetter(text[i])
    /\ ~ \E h \in 1 .. (i - 1) :
            /\ IsLetter(text[h])
            /\ \A k \in (h + 1) .. i : IsTokChar(text[k])

MaxEnd(text, i) ==
    CHOOSE j \in i .. Len(text) :
        /\ \A k \in (i + 1) .. j : IsTokChar(text[k])
        /\ j = Len(text) \/ ~IsTokChar(text[j + 1])

TermOf(text, i) ==
    strip(lower(SubSeq(text, i, MaxEnd(text, i))), { ".", "_", "-", "+", "/" })

RECURSIVE TermsFrom(_, _, _)
TermsFrom(text, stop, i) ==
    IF i > Len(text) THEN << >>
    ELSE (IF /\ IsMaxStart(text, i)
             /\ Len(TermOf(text, i)) >= 3
             /\ TermOf(text, i) \notin stop
          THEN << TermOf(text, i) >> ELSE << >>)
         \o TermsFrom(text, stop, i + 1)

\* C6: every term tokenize_simple returns is lowercased, has at least 3
\* characters after the punctuation-like characters . _ - + / at its ends
\* were stripped, is not a stop word, and comes from a maximal substring of
\* the text that starts with a letter and goes on with letters, digits,
\* - / + _ or . ; the terms are in text order, one entry per occurrence.
C6_Tokens ==
    pc = "tokenized" =>
        /\ jd_terms_list = TermsFrom(jd_text, STOP_WORDS, 1)
        /\ \A n \in DOMAIN jd_terms_list :
              LET t == jd_terms_list[n]
              IN  /\ Len(t) >= 3
                  /\ \A k \in DOMAIN t : ~IsUpper(t[k])
                  /\ t[1] \notin { ".", "_", "-", "+", "/" }
                  /\ t[Len(t)] \notin { ".", "_", "-", "+", "/" }
                  /\ t \notin STOP_WORDS
                  /\ \E i \in DOMAIN jd_text :
                        IsMaxStart(jd_text, i) /\ t = TermOf(jd_text, i)

C6_Witness ==
    /\ pc = "tokenized"
    /\ jd_text = << "a","n","D","-"," ","a","n","D" >>
    /\ jd_terms_list = << << "a","n","d" >>, << "a","n","d" >> >>

-----------------------------------------------------------------------------
(* Properties of suggest_bullets (SpecSug).                                *)

\* C10: suggest_bullets returns one sentence for each of the first
\* min(max_bullets, len(missing_terms)) terms and no more, in the order of
\* the terms, the k-th sentence (from 0) being template k mod 4 with the
\* k-th term put in; this holds of every call, whatever calls came before.
C10_Bullets ==
    pc = "suggested" =>
        /\ Len(bullets) = Min(max_bullets, Len(missing_terms))
        /\ \A k \in 0 .. (Len(bullets) - 1) :
              bullets[k + 1] = templates[(k % 4) + 1][1]
                                   \o Str(missing_terms[k + 1])
                                   \o templates[(k % 4) + 1][2]

C10_Witness ==
    /\ pc = "suggested"
    /\ Len(missing_terms) = 6
    /\ max_bullets = 5
    /\ bullets[5] = "Built a small demo using ci/cd and documented setup & outcomes."

-----------------------------------------------------------------------------
(* Properties of main() (Spec).                                            *)

IsPrefix(s, t) == Len(s) <= Len(t) /\ \A i \in DOMAIN s : s[i] = t[i]

Printed(kind) == \E i \in DOMAIN console : console[i].kind = kind

\* C4: for every top-N the command line accepts, each list shown in the CLI
\* tables is a prefix of the fully sorted list, of length
\* min(N, length of the full list).
C4_Truncation ==
    \A i \in DOMAIN console :
        /\ console[i].kind = "gaps_table" =>
              /\ IsPrefix(console[i].rows, gaps_scored_all)
              /\ Len(console[i].rows) = Min(args_top, Len(gaps_scored_all))
        /\ console[i].kind = "overlap_table" =>
              /\ IsPrefix(console[i].rows, overlap_sorted)
              /\ Len(console[i].rows) = Min(args_top, Len(overlap_sorted))

\* C7: when the resume or the job description is missing, the run ends in
\* the fatal error of the read and nothing has been output: nothing printed,
\* no report written.
C7_MissingInput ==
    (~cv_file.exists \/ ~job_file.exists) =>
        /\ pc \in { "read_cv", "read_job", "fatal" }
        /\ pc = "read_job" => cv_file.exists
        /\ console = << >>
        /\ ~report.written
        /\ bullets = << >>

C7_Witness ==
    /\ pc = "fatal"
    /\ cv_file.exists /\ ~job_file.exists
    /\ out_ok

\* C8: a run is all or nothing: it ends with every output produced, or in a
\* fatal error with none of them produced.
C8_AllOrNothing ==
    /\ pc = "fatal" => (console = << >> /\ ~report.written)
    /\ pc = "done" =>
          /\ Printed("panel") /\ Printed("gaps_table")
          /\ Printed("overlap_table") /\ Printed("saved")
          /\ report.written

\* The k-th line of `lines` that is not blank, trimmed.
NonBlank(lines) ==
    { i \in DOMAIN lines : strip(lines[i], Whitespace) # << >> }
KthNonBlank(lines, k) ==
    CHOOSE i \in NonBlank(lines) :
        Cardinality({ j \in NonBlank(lines) : j <= i }) = k

PhrasesLoaded ==
    \/ pc \in { "analyse", "cli", "html", "suggest", "finish", "done" }
    \/ pc = "fatal" /\ console # << >>

\* C9: the phrase list used for both documents is the built-in default list
\* when the phrase file is not given or does not exist, and otherwise the
\* file's lines, trimmed, blank lines left out, in file order; neither case
\* ends the run in an error.
C9_EffectivePhrases ==
    /\ PhrasesLoaded =>
          /\ (~nice_file.given \/ ~nice_file.exists) => phrases = DEFAULT_NICE
          /\ (nice_file.given /\ nice_file.exists) =>
                /\ Len(phrases) = Cardinality(NonBlank(nice_file.lines))
                /\ \A k \in DOMAIN phrases :
                      phrases[k] = strip(nice_file.lines[
                                             KthNonBlank(nice_file.lines, k)],
                                         Whitespace)
          /\ cv_phrase_hits = find_phrases(cv_text, phrases)
          /\ jd_phrase_hits = find_phrases(jd_text, phrases)
    /\ pc = "fatal" => (~cv_file.exists \/ ~job_file.exists \/ ~out_ok)

C9_Witness ==
    /\ pc = "done"
    /\ nice_file.given /\ nice_file.exists
    /\ nice_file.lines = << << " " >>, << " ","S","Q","L" >> >>
    /\ phrases = << << "S","Q","L" >> >>
    /\ jd_phrase_hits = { << "s","q","l" >> }

=============================================================================
